---- MODULE Spec2Model ----
(***************************************************************************)
(* Model of the Google Realtime bridge of jupyterlab_google_drive:         *)
(*   - GoogleRealtimeString (observable string over a CollaborativeString) *)
(*   - CollaboratorMap      (observable roster over a CollaborativeMap)    *)
(* The JavaScript event loop runs every call and every listener to         *)
(* completion, so each public call and each backend event is one action;   *)
(* the events the handle fires synchronously inside a call are dispatched  *)
(* inside the same action.                                                 *)
(***************************************************************************)
EXTENDS Integers, Sequences, FiniteSets, TLC

\* ------------------------------------------------------------------------
\* Bounds and value domains
\* ------------------------------------------------------------------------

\* longest text an insert / setText may produce
MaxLen == 3

\* longest argument string of insert / setText / a remote insert
MaxStrLen == 2

Chars == {"a", "b"}

HelloWorld == <<"h", "e", "l", "l", "o", " ", "w", "o", "r", "l", "d">>

\* the strings passed as arguments
Texts == UNION {[1..n -> Chars] : n \in 0..MaxStrLen}

\* the text the CollaborativeString may hold when it is wrapped
InitTexts == {<<>>, <<"a", "b">>}

VARIABLES
    hText,          \* _str: text held by the CollaborativeString
    strListening,   \* the two listeners are registered on _str
    strConnected,   \* a subscriber is connected to the changed signal
    strDisposed,    \* _isDisposed
    strIsLinkable,  \* isLinkable
    strIsLinked,    \* isLinked
    strOp,          \* history: the last call or event
    strPre,         \* history: text before the last call or event
    strEvents,      \* history: events _str fired during the last step
    strEvtOut,      \* history: notifications emitted by the listeners
    strOut,         \* history: notifications the subscriber received
    strSeen,        \* history: text the subscriber read at each of them
    strErr,         \* history: error the last call raised
    refText         \* in-memory reference string given the same edits

strVars == <<hText, strListening, strConnected, strDisposed, strIsLinkable,
             strIsLinked, strOp, strPre, strEvents, strEvtOut, strOut, strSeen,
             strErr, refText>>

\* ------------------------------------------------------------------------
\* CollaborativeString (the remote handle) as called by the adapter
\* ------------------------------------------------------------------------

Min(a, b) == IF a < b THEN a ELSE b

\* String.prototype.slice for non-negative arguments
slice(s, start, end) ==
    LET lo == Min(start, Len(s))
        hi == Min(end, Len(s))
    IN IF lo < hi THEN SubSeq(s, lo + 1, hi) ELSE <<>>

insertString(s, index, t) == slice(s, 0, index) \o t \o slice(s, index, Len(s))

removeRange(s, start, end) == slice(s, 0, start) \o slice(s, end, Len(s))

setText(s, value) == value

getText == hText

TextEvent(kind, index, t, isLocal) ==
    [type |-> kind, index |-> index, text |-> t, isLocal |-> isLocal]

\* setText is applied by the handle as a delete of the old text and an
\* insert of the new one; both events carry the origin of the call
setTextEvents(s, value, isLocal) ==
    (IF s # <<>> THEN <<TextEvent("TEXT_DELETED", 0, s, isLocal)>> ELSE <<>>)
    \o (IF value # <<>> THEN <<TextEvent("TEXT_INSERTED", 0, value, isLocal)>>
        ELSE <<>>)

\* ------------------------------------------------------------------------
\* GoogleRealtimeString
\* ------------------------------------------------------------------------

StrNote(kind, start, end, value) ==
    [type |-> kind, start |-> start, end |-> end, value |-> value]

OnTextInserted_NoFilter(evt) ==
    <<StrNote("insert", evt.index, evt.index + Len(evt.text), evt.text)>>

\* listener registered for TEXT_INSERTED
OnTextInserted(evt) ==
    IF ~evt.isLocal
    THEN <<StrNote("insert", evt.index, evt.index + Len(evt.text), evt.text)>>
    ELSE <<>>

OnTextDeleted_EndIsIndex(evt) ==
    IF ~evt.isLocal
    THEN <<StrNote("remove", evt.index, evt.index, evt.text)>>
    ELSE <<>>

\* listener registered for TEXT_DELETED
OnTextDeleted(evt) ==
    IF ~evt.isLocal
    THEN <<StrNote("remove", evt.index, evt.index + Len(evt.text), evt.text)>>
    ELSE <<>>

OnTextEvent(evt) ==
    IF evt.type = "TEXT_INSERTED" THEN OnTextInserted(evt) ELSE OnTextDeleted(evt)

RECURSIVE StrDispatchAll(_)
StrDispatchAll(evts) ==
    IF evts = <<>> THEN <<>>
    ELSE OnTextEvent(Head(evts)) \o StrDispatchAll(Tail(evts))

\* the handle calls the registered listeners for every event it fires
StrDispatch(evts) == IF strListening THEN StrDispatchAll(evts) ELSE <<>>

\* Signal.emit reaches the subscriber while it is connected
StrDeliver(notes) == IF strConnected THEN notes ELSE <<>>

StrOpRec(op, a, b, v) == [op |-> op, a |-> a, b |-> b, v |-> v]

\* one adapter step: the handle ends with text t after firing evts, then the
\* adapter emits `explicit'; every emission happens after the mutation
StrStep(op, t, evts, explicit) ==
    /\ hText' = t
    /\ strOp' = op
    /\ strPre' = hText
    /\ strEvents' = evts
    /\ strEvtOut' = StrDispatch(evts)
    /\ strOut' = StrDeliver(StrDispatch(evts) \o explicit)
    /\ strSeen' = [i \in 1..Len(StrDeliver(StrDispatch(evts) \o explicit)) |-> t]
    /\ strErr' = "none"
    /\ UNCHANGED <<strListening, strConnected, strDisposed, strIsLinkable,
                   strIsLinked>>

\* the same edits on an in-memory string, character by character
RefInsert(s, index, t) ==
    [k \in 1..(Len(s) + Len(t)) |->
        IF k <= index THEN s[k]
        ELSE IF k <= index + Len(t) THEN t[k - index]
        ELSE s[k - Len(t)]]

RefRemove(s, start, end) ==
    [k \in 1..(Len(s) - (end - start)) |->
        IF k <= start THEN s[k] ELSE s[k + (end - start)]]

insert(index, t) ==
    /\ index \in 0..Len(hText)
    /\ Len(hText) + Len(t) <= MaxLen
    /\ StrStep(StrOpRec("insert", index, 0, t),
               insertString(hText, index, t),
               <<TextEvent("TEXT_INSERTED", index, t, TRUE)>>,
               <<StrNote("insert", index, index + Len(t), t)>>)
    /\ refText' = RefInsert(refText, index, t)

remove_LengthArg(start, end) ==
    /\ start \in 0..Len(hText)
    /\ end \in start..Len(hText)
    /\ StrStep(StrOpRec("remove", start, end, <<>>),
               removeRange(hText, start, end - start),
               <<TextEvent("TEXT_DELETED", start,
                           slice(hText, start, end - start), TRUE)>>,
               <<StrNote("remove", start, end, slice(hText, start, end))>>)
    /\ refText' = RefRemove(refText, start, end)

remove_CaptureAfter(start, end) ==
    /\ start \in 0..Len(hText)
    /\ end \in start..Len(hText)
    /\ StrStep(StrOpRec("remove", start, end, <<>>),
               removeRange(hText, start, end),
               <<TextEvent("TEXT_DELETED", start, slice(hText, start, end), TRUE)>>,
               <<StrNote("remove", start, end,
                         slice(removeRange(hText, start, end), start, end))>>)
    /\ refText' = RefRemove(refText, start, end)

remove(start, end) ==
    /\ start \in 0..Len(hText)
    /\ end \in start..Len(hText)
    /\ StrStep(StrOpRec("remove", start, end, <<>>),
               removeRange(hText, start, end),
               <<TextEvent("TEXT_DELETED", start, slice(hText, start, end), TRUE)>>,
               <<StrNote("remove", start, end, slice(hText, start, end))>>)
    /\ refText' = RefRemove(refText, start, end)

\* the body of `set text(value)', shared by the setter and clear()
textSetAs(op, value) ==
    /\ StrStep(StrOpRec(op, 0, 0, value),
               setText(hText, value),
               setTextEvents(hText, value, TRUE),
               <<StrNote("set", 0, Len(value), value)>>)
    /\ refText' = value

textSet(value) == textSetAs("set", value)

clear_RemoveRange ==
    /\ StrStep(StrOpRec("clear", 0, 0, <<>>),
               <<>>,
               setTextEvents(hText, <<>>, TRUE),
               <<StrNote("remove", 0, Len(hText), hText)>>)
    /\ refText' = <<>>

clear == textSetAs("clear", <<>>)

\* another session inserted text: the handle applies it and fires the event
RemoteTextInserted(index, t) ==
    /\ index \in 0..Len(hText)
    /\ Len(hText) + Len(t) <= MaxLen
    /\ t # <<>>
    /\ StrStep(StrOpRec("remoteInsert", index, 0, t),
               insertString(hText, index, t),
               <<TextEvent("TEXT_INSERTED", index, t, FALSE)>>,
               <<>>)
    /\ refText' = RefInsert(refText, index, t)

\* another session deleted a range
RemoteTextDeleted(start, end) ==
    /\ start \in 0..Len(hText)
    /\ end \in (start + 1)..Len(hText)
    /\ StrStep(StrOpRec("remoteDelete", start, end, <<>>),
               removeRange(hText, start, end),
               <<TextEvent("TEXT_DELETED", start, slice(hText, start, end), FALSE)>>,
               <<>>)
    /\ refText' = RefRemove(refText, start, end)

StrNoOp(op) ==
    /\ strOp' = StrOpRec(op, 0, 0, <<>>)
    /\ strPre' = hText
    /\ strEvents' = <<>>
    /\ strEvtOut' = <<>>
    /\ strOut' = <<>>
    /\ strSeen' = <<>>
    /\ strErr' = "none"
    /\ UNCHANGED <<hText, refText>>

strLink_SetsLinked ==
    /\ StrNoOp("link")
    /\ strIsLinked' = TRUE
    /\ UNCHANGED <<strListening, strConnected, strDisposed, strIsLinkable>>

\* link(str): no-op
strLink ==
    /\ StrNoOp("link")
    /\ UNCHANGED <<strListening, strConnected, strDisposed, strIsLinkable,
                   strIsLinked>>

strUnlink ==
    /\ StrNoOp("unlink")
    /\ UNCHANGED <<strListening, strConnected, strDisposed, strIsLinkable,
                   strIsLinked>>

strDispose ==
    /\ StrNoOp("dispose")
    /\ IF strDisposed
       THEN UNCHANGED <<strListening, strConnected, strDisposed>>
       ELSE /\ strListening' = FALSE
            /\ strConnected' = FALSE
            /\ strDisposed' = TRUE
    /\ UNCHANGED <<strIsLinkable, strIsLinked>>

\* ------------------------------------------------------------------------
\* Collaborators, identity records and the CollaborativeMap
\* ------------------------------------------------------------------------

Sessions == {"s0", "s1", "s2"}

SessionOrder == <<"s0", "s1", "s2">>

Names == {"n1", "n2"}

\* the session of this process: the collaborator the backend flags isMe
Me == "s1"

\* a user id may be shared by several sessions
UserOf(s) == IF s = "s0" THEN "u0" ELSE "u1"

ColorOf(s) == IF s = "s0" THEN "red" ELSE IF s = "s1" THEN "green" ELSE "blue"

\* a value that is not there (undefined / null)
Undefined == [undefined |-> TRUE]

Null == [null |-> TRUE]

\* gapi collaborator, as listed by getCollaborators() and carried by events
Collab(s, n) ==
    [userId |-> UserOf(s), sessionId |-> s, displayName |-> n,
     color |-> ColorOf(s), isMe |-> (s = Me)]

\* GoogleRealtimeCollaborator with key s
Rec(s, n) ==
    [userId |-> UserOf(s), sessionId |-> s, displayName |-> n, color |-> ColorOf(s)]

RecordsOf(s) == {Rec(s, n) : n \in Names}

\* the contents a CollaborativeMap may have
MapContents == [Sessions -> UNION {RecordsOf(s) : s \in Sessions} \cup {Undefined}]

EmptyMap == [s \in Sessions |-> Undefined]

KeyedMaps == {m \in MapContents : \A s \in Sessions : m[s] \in RecordsOf(s) \cup {Undefined}}

mapHas(m, k) == m[k] # Undefined

mapGet(m, k) == m[k]

mapKeys(m) == {k \in Sessions : m[k] # Undefined}

mapSet(m, k, v) == [m EXCEPT ![k] = v]

mapDelete_Keep(m, k) == m

mapDelete(m, k) == [m EXCEPT ![k] = Undefined]

\* keys() and values() list the entries in one order
mapKeyList(m) ==
    LET F[i \in 0..Len(SessionOrder)] ==
            IF i = 0 THEN <<>>
            ELSE F[i - 1] \o (IF mapHas(m, SessionOrder[i])
                              THEN <<SessionOrder[i]>> ELSE <<>>)
    IN F[Len(SessionOrder)]

mapValues(m) == [i \in 1..Len(mapKeyList(m)) |-> m[mapKeyList(m)[i]]]

mapSize(m) == Cardinality(mapKeys(m))

ValueEvent(property, oldValue, newValue, isLocal) ==
    [property |-> property, oldValue |-> oldValue, newValue |-> newValue,
     isLocal |-> isLocal]

\* VALUE_CHANGED events the map fires for a set / delete / clear of this session
mapSetEvents(m, k, v) == <<ValueEvent(k, m[k], v, TRUE)>>

mapDeleteEvents(m, k) ==
    IF mapHas(m, k) THEN <<ValueEvent(k, m[k], Undefined, TRUE)>> ELSE <<>>

mapClearEvents(m) ==
    LET F[i \in 0..Len(SessionOrder)] ==
            IF i = 0 THEN <<>>
            ELSE F[i - 1] \o mapDeleteEvents(m, SessionOrder[i])
    IN F[Len(SessionOrder)]

\* doc.getCollaborators(): the live sessions, with the names nm reports
getCollaborators(liveSet, nm) ==
    LET F[i \in 0..Len(SessionOrder)] ==
            IF i = 0 THEN <<>>
            ELSE F[i - 1] \o (IF SessionOrder[i] \in liveSet
                              THEN <<Collab(SessionOrder[i], nm[SessionOrder[i]])>>
                              ELSE <<>>)
    IN F[Len(SessionOrder)]

VARIABLES
    rootHasMap,         \* root holds a map under 'collaborators:map'
    shared,             \* contents of that CollaborativeMap
    mapBound,           \* this._map refers to it (FALSE: this._map is null)
    live,               \* sessions the backend reports as live
    localCollaborator,  \* _localCollaborator
    docListening,       \* join / leave listeners registered on _doc
    mapListening,       \* VALUE_CHANGED listener registered on _map
    rConnected,         \* a subscriber is connected to the changed signal
    rDisposed,          \* _isDisposed
    rReady,             \* the _ready promise is resolved
    rIsLinkable,        \* isLinkable
    rIsLinked,          \* isLinked
    rOp,                \* history: the last call or event
    rPre,               \* history: contents of the map before it
    rEvents,            \* history: VALUE_CHANGED events the map fired
    rEvtOut,            \* history: notifications emitted by the listener
    rOut,               \* history: notifications the subscriber received
    rRet,               \* history: value the last call returned
    rErr                \* history: error the last call or listener raised

rVars == <<rootHasMap, shared, mapBound, live, localCollaborator, docListening,
           mapListening, rConnected, rDisposed, rReady, rIsLinkable, rIsLinked,
           rOp, rPre, rEvents, rEvtOut, rOut, rRet, rErr>>

\* several sessions, each with a ready roster over the one shared map
VARIABLES
    inbox,      \* per roster: events the backend has not delivered to it yet
    heard,      \* per roster: notifications its subscriber received since the
                \* last join / leave the backend announced
    sessOp      \* the last join / leave the backend announced

sessVars == <<inbox, heard, sessOp>>

vars == <<strVars, rVars, sessVars>>

\* ------------------------------------------------------------------------
\* CollaboratorMap
\* ------------------------------------------------------------------------

MapNote(kind, key, oldValue, newValue) ==
    [type |-> kind, key |-> key, oldValue |-> oldValue, newValue |-> newValue]

\* the record the constructor and the join listener build from a collaborator
toCollaborator(c) ==
    [userId |-> c.userId, sessionId |-> c.sessionId,
     displayName |-> c.displayName, color |-> c.color]

RECURSIVE sessionIds(_)
sessionIds(list) ==
    IF list = <<>> THEN {} ELSE {Head(list).sessionId} \cup sessionIds(Tail(list))

removeStale_KeepAll(m, initialSessions) == m

\* "remove stale collaborators"
removeStale(m, initialSessions) ==
    [k \in Sessions |->
        IF mapHas(m, k) /\ k \notin initialSessions THEN Undefined ELSE m[k]]

\* "Now add the remaining collaborators": st is [map, local]
RECURSIVE addRemaining(_, _)
addRemaining(list, st) ==
    IF list = <<>> THEN st
    ELSE LET c == Head(list)
             collaborator == toCollaborator(c)
         IN addRemaining(Tail(list),
                IF ~mapHas(st.map, collaborator.sessionId)
                THEN [map   |-> mapSet(st.map, collaborator.sessionId, collaborator),
                      local |-> IF c.isMe THEN collaborator ELSE st.local]
                ELSE st)

OnValueChanged_OrChange(evt) ==
    IF ~evt.isLocal
    THEN <<MapNote(IF evt.oldValue # Undefined \/ evt.newValue # Undefined THEN "change"
                   ELSE IF evt.oldValue # Undefined /\ evt.newValue = Undefined
                        THEN "remove"
                   ELSE "add",
                   evt.property, evt.oldValue, evt.newValue)>>
    ELSE <<>>

OnValueChanged_NoFilter(evt) ==
    <<MapNote(IF evt.oldValue # Undefined /\ evt.newValue # Undefined THEN "change"
              ELSE IF evt.oldValue # Undefined /\ evt.newValue = Undefined
                   THEN "remove"
              ELSE "add",
              evt.property, evt.oldValue, evt.newValue)>>

\* listener registered for VALUE_CHANGED
OnValueChanged(evt) ==
    IF ~evt.isLocal
    THEN <<MapNote(IF evt.oldValue # Undefined /\ evt.newValue # Undefined THEN "change"
                   ELSE IF evt.oldValue # Undefined /\ evt.newValue = Undefined
                        THEN "remove"
                   ELSE "add",
                   evt.property, evt.oldValue, evt.newValue)>>
    ELSE <<>>

RECURSIVE rDispatchAll(_)
rDispatchAll(evts) ==
    IF evts = <<>> THEN <<>>
    ELSE OnValueChanged(Head(evts)) \o rDispatchAll(Tail(evts))

rDispatch(evts) == IF mapListening THEN rDispatchAll(evts) ELSE <<>>

rDeliver(notes) == IF rConnected THEN notes ELSE <<>>

setCall_AlwaysAdd(m, key, value) ==
    [map    |-> mapSet(m, key, value),
     events |-> mapSetEvents(m, key, value),
     notes  |-> <<MapNote("add", key, mapGet(m, key), value)>>,
     ret    |-> mapGet(m, key)]

\* set(key, value) on a bound map m: the new contents, the events the map
\* fires, the notification emitted and the value returned
setCall(m, key, value) ==
    [map    |-> mapSet(m, key, value),
     events |-> mapSetEvents(m, key, value),
     notes  |-> <<MapNote(IF mapGet(m, key) # Undefined THEN "change" ELSE "add",
                          key, mapGet(m, key), value)>>,
     ret    |-> mapGet(m, key)]

deleteCall_NoDelete(m, key) ==
    [map    |-> m,
     events |-> <<>>,
     notes  |-> <<MapNote("remove", key, mapGet(m, key), Undefined)>>,
     ret    |-> mapGet(m, key)]

\* delete(key) on a bound map m
deleteCall(m, key) ==
    [map    |-> mapDelete(m, key),
     events |-> mapDeleteEvents(m, key),
     notes  |-> <<MapNote("remove", key, mapGet(m, key), Undefined)>>,
     ret    |-> mapGet(m, key)]

\* clear() on a bound map m: nothing is emitted by the method itself
clearCall(m) ==
    [map    |-> EmptyMap,
     events |-> mapClearEvents(m),
     notes  |-> <<>>,
     ret    |-> Undefined]

ROpRec(op, key, value, list, flag) ==
    [op |-> op, key |-> key, value |-> value, list |-> list, flag |-> flag]

\* the call dereferences this._map, which is null: a TypeError is thrown
\* before anything is changed
rThrows(op) ==
    /\ rOp' = op
    /\ rPre' = shared
    /\ rEvents' = <<>>
    /\ rEvtOut' = <<>>
    /\ rOut' = <<>>
    /\ rRet' = Undefined
    /\ rErr' = "TypeError"
    /\ UNCHANGED <<rootHasMap, shared, mapBound, localCollaborator, docListening,
                   mapListening, rConnected, rDisposed, rReady, rIsLinkable,
                   rIsLinked>>

\* a call through this._map with result r
rApply(op, r) ==
    /\ rOp' = op
    /\ rPre' = shared
    /\ shared' = r.map
    /\ rEvents' = r.events
    /\ rEvtOut' = rDispatch(r.events)
    /\ rOut' = rDeliver(rDispatch(r.events) \o r.notes)
    /\ rRet' = r.ret
    /\ rErr' = "none"
    /\ UNCHANGED <<rootHasMap, mapBound, docListening, mapListening, rConnected,
                   rDisposed, rReady, rIsLinkable, rIsLinked>>

\* a read through this._map that returns ret
rObserve(op, ret) ==
    /\ rOp' = op
    /\ rPre' = shared
    /\ rEvents' = <<>>
    /\ rEvtOut' = <<>>
    /\ rOut' = <<>>
    /\ rRet' = ret
    /\ rErr' = "none"
    /\ UNCHANGED <<rootHasMap, shared, mapBound, docListening, mapListening,
                   rConnected, rDisposed, rReady, rIsLinkable, rIsLinked>>

\* the collaborator list changes while no listener is registered on _doc
BackendChange(op, liveNext) ==
    /\ ~docListening
    /\ live' = liveNext
    /\ rOp' = op
    /\ rPre' = shared
    /\ rEvents' = <<>>
    /\ rEvtOut' = <<>>
    /\ rOut' = <<>>
    /\ rRet' = Undefined
    /\ rErr' = "none"
    /\ UNCHANGED <<rootHasMap, shared, mapBound, localCollaborator, docListening,
                   mapListening, rConnected, rDisposed, rReady, rIsLinkable,
                   rIsLinked>>

BackendJoined(s) ==
    /\ s \notin live
    /\ BackendChange(ROpRec("joinUnheard", s, Undefined, <<>>, s = Me), live \cup {s})

BackendLeft(s) ==
    /\ s \in live
    /\ BackendChange(ROpRec("leftUnheard", s, Undefined, <<>>, FALSE), live \ {s})

\* new CollaboratorMap(doc): the promise executor runs inside the constructor
Construct_NoDocListeners(nm) ==
    /\ ~rReady
    /\ LET initialCollaborators == getCollaborators(live, nm)
           initialSessions == sessionIds(initialCollaborators)
           m0 == IF rootHasMap THEN shared ELSE EmptyMap
           st == addRemaining(initialCollaborators,
                              [map   |-> removeStale(m0, initialSessions),
                               local |-> localCollaborator])
       IN /\ rootHasMap' = TRUE
          /\ mapBound' = TRUE
          /\ shared' = st.map
          /\ localCollaborator' = st.local
          /\ rPre' = m0
          /\ rOp' = ROpRec("construct", "", Undefined, initialCollaborators,
                           ~rootHasMap)
    /\ docListening' = FALSE
    /\ mapListening' = TRUE
    /\ rReady' = TRUE
    /\ rConnected' = TRUE
    /\ rEvents' = <<>>
    /\ rEvtOut' = <<>>
    /\ rOut' = <<>>
    /\ rRet' = Undefined
    /\ rErr' = "none"
    /\ UNCHANGED <<live, rDisposed, rIsLinkable, rIsLinked>>

Construct(nm) ==
    /\ ~rReady
    /\ LET initialCollaborators == getCollaborators(live, nm)
           initialSessions == sessionIds(initialCollaborators)
           m0 == IF rootHasMap THEN shared ELSE EmptyMap
           st == addRemaining(initialCollaborators,
                              [map   |-> removeStale(m0, initialSessions),
                               local |-> localCollaborator])
       IN /\ rootHasMap' = TRUE
          /\ mapBound' = TRUE
          /\ shared' = st.map
          /\ localCollaborator' = st.local
          /\ rPre' = m0
          /\ rOp' = ROpRec("construct", "", Undefined, initialCollaborators,
                           ~rootHasMap)
    /\ docListening' = TRUE
    /\ mapListening' = TRUE
    /\ rReady' = TRUE
    /\ rConnected' = TRUE
    /\ rEvents' = <<>>
    /\ rEvtOut' = <<>>
    /\ rOut' = <<>>
    /\ rRet' = Undefined
    /\ rErr' = "none"
    /\ UNCHANGED <<live, rDisposed, rIsLinkable, rIsLinked>>

\* the backend reports that session s joined: COLLABORATOR_JOINED listener
CollaboratorJoined(s, n) ==
    /\ rReady
    /\ docListening
    /\ s \notin live
    /\ live' = live \cup {s}
    /\ LET evt == [collaborator |-> Collab(s, n)]
           collaborator == toCollaborator(evt.collaborator)
           op == ROpRec("join", collaborator.sessionId, Undefined,
                        <<evt.collaborator>>, evt.collaborator.isMe)
       IN IF mapBound
          THEN /\ rApply(op, setCall(shared, collaborator.sessionId, collaborator))
               /\ localCollaborator' =
                     IF evt.collaborator.isMe THEN collaborator ELSE localCollaborator
          ELSE rThrows(op)

\* the backend reports that session s left: COLLABORATOR_LEFT listener
CollaboratorLeft(s) ==
    /\ rReady
    /\ docListening
    /\ s \in live
    /\ live' = live \ {s}
    /\ LET evt == [collaborator |-> [sessionId |-> s]]
           op == ROpRec("left", evt.collaborator.sessionId, Undefined, <<>>, FALSE)
       IN IF mapBound
          THEN /\ rApply(op, deleteCall(shared, evt.collaborator.sessionId))
               /\ UNCHANGED localCollaborator
          ELSE rThrows(op)

\* another session wrote the shared map: the map changes and fires
\* VALUE_CHANGED with isLocal = false
RemoteValueChanged(key, newValue) ==
    /\ rReady
    /\ newValue # shared[key]
    /\ rOp' = ROpRec("valueChanged", key, newValue, <<>>, FALSE)
    /\ rPre' = shared
    /\ shared' = mapSet(shared, key, newValue)
    /\ rEvents' = <<ValueEvent(key, shared[key], newValue, FALSE)>>
    /\ rEvtOut' = rDispatch(<<ValueEvent(key, shared[key], newValue, FALSE)>>)
    /\ rOut' = rDeliver(rDispatch(<<ValueEvent(key, shared[key], newValue, FALSE)>>))
    /\ rRet' = Undefined
    /\ rErr' = "none"
    /\ UNCHANGED <<rootHasMap, mapBound, live, localCollaborator, docListening,
                   mapListening, rConnected, rDisposed, rReady, rIsLinkable,
                   rIsLinked>>

\* a VALUE_CHANGED event of another session that carries neither an old nor
\* a new value (a delete of a key that is not there)
RemoteEmptyValueChanged(key) ==
    /\ rReady
    /\ ~mapHas(shared, key)
    /\ rOp' = ROpRec("valueChanged", key, Undefined, <<>>, FALSE)
    /\ rPre' = shared
    /\ rEvents' = <<ValueEvent(key, Undefined, Undefined, FALSE)>>
    /\ rEvtOut' = rDispatch(<<ValueEvent(key, Undefined, Undefined, FALSE)>>)
    /\ rOut' = rDeliver(rDispatch(<<ValueEvent(key, Undefined, Undefined, FALSE)>>))
    /\ rRet' = Undefined
    /\ rErr' = "none"
    /\ UNCHANGED <<rootHasMap, shared, mapBound, live, localCollaborator,
                   docListening, mapListening, rConnected, rDisposed, rReady,
                   rIsLinkable, rIsLinked>>

rSet(key, value) ==
    /\ rReady
    /\ LET op == ROpRec("set", key, value, <<>>, FALSE)
       IN IF mapBound
          THEN rApply(op, setCall(shared, key, value))
          ELSE rThrows(op)
    /\ UNCHANGED <<live, localCollaborator>>

rDelete(key) ==
    /\ rReady
    /\ LET op == ROpRec("delete", key, Undefined, <<>>, FALSE)
       IN IF mapBound
          THEN rApply(op, deleteCall(shared, key))
          ELSE rThrows(op)
    /\ UNCHANGED <<live, localCollaborator>>

rClear ==
    /\ rReady
    /\ LET op == ROpRec("clear", "", Undefined, <<>>, FALSE)
       IN IF mapBound
          THEN rApply(op, clearCall(shared))
          ELSE rThrows(op)
    /\ UNCHANGED <<live, localCollaborator>>

rGet(key) ==
    /\ rReady
    /\ LET op == ROpRec("get", key, Undefined, <<>>, FALSE)
       IN IF mapBound THEN rObserve(op, mapGet(shared, key)) ELSE rThrows(op)
    /\ UNCHANGED <<live, localCollaborator>>

rHas(key) ==
    /\ rReady
    /\ LET op == ROpRec("has", key, Undefined, <<>>, FALSE)
       IN IF mapBound THEN rObserve(op, mapHas(shared, key)) ELSE rThrows(op)
    /\ UNCHANGED <<live, localCollaborator>>

rKeys ==
    /\ rReady
    /\ LET op == ROpRec("keys", "", Undefined, <<>>, FALSE)
       IN IF mapBound THEN rObserve(op, mapKeyList(shared)) ELSE rThrows(op)
    /\ UNCHANGED <<live, localCollaborator>>

rValues ==
    /\ rReady
    /\ LET op == ROpRec("values", "", Undefined, <<>>, FALSE)
       IN IF mapBound THEN rObserve(op, mapValues(shared)) ELSE rThrows(op)
    /\ UNCHANGED <<live, localCollaborator>>

rSize ==
    /\ rReady
    /\ LET op == ROpRec("size", "", Undefined, <<>>, FALSE)
       IN IF mapBound THEN rObserve(op, mapSize(shared)) ELSE rThrows(op)
    /\ UNCHANGED <<live, localCollaborator>>

rNoOp(op) ==
    /\ rReady
    /\ rOp' = ROpRec(op, "", Undefined, <<>>, FALSE)
    /\ rPre' = shared
    /\ rEvents' = <<>>
    /\ rEvtOut' = <<>>
    /\ rOut' = <<>>
    /\ rRet' = Undefined
    /\ rErr' = "none"
    /\ UNCHANGED <<rootHasMap, shared, mapBound, live, localCollaborator,
                   docListening, mapListening, rConnected, rDisposed, rReady>>

rLink == rNoOp("link") /\ UNCHANGED <<rIsLinkable, rIsLinked>>

rUnlink == rNoOp("unlink") /\ UNCHANGED <<rIsLinkable, rIsLinked>>

rDispose_NoGuard ==
    /\ rReady
    /\ rOp' = ROpRec("dispose", "", Undefined, <<>>, FALSE)
    /\ rPre' = shared
    /\ rEvents' = <<>>
    /\ rEvtOut' = <<>>
    /\ rOut' = <<>>
    /\ rRet' = Undefined
    /\ rErr' = IF mapBound THEN "none" ELSE "TypeError"
    /\ IF ~mapBound
       THEN UNCHANGED <<shared, mapBound, mapListening, rConnected, rDisposed>>
       ELSE /\ rConnected' = FALSE
            /\ mapListening' = FALSE
            /\ shared' = EmptyMap
            /\ mapBound' = FALSE
            /\ rDisposed' = TRUE
    /\ UNCHANGED <<rootHasMap, live, localCollaborator, docListening, rReady,
                   rIsLinkable, rIsLinked>>

\* dispose(): returns at once when already disposed
rDispose ==
    /\ rReady
    /\ rOp' = ROpRec("dispose", "", Undefined, <<>>, FALSE)
    /\ rPre' = shared
    /\ rEvents' = <<>>
    /\ rEvtOut' = <<>>
    /\ rOut' = <<>>
    /\ rRet' = Undefined
    /\ rErr' = "none"
    /\ IF rDisposed
       THEN UNCHANGED <<shared, mapBound, mapListening, rConnected, rDisposed>>
       ELSE /\ rConnected' = FALSE
            /\ mapListening' = FALSE
            /\ shared' = EmptyMap
            /\ mapBound' = FALSE
            /\ rDisposed' = TRUE
    /\ UNCHANGED <<rootHasMap, live, localCollaborator, docListening, rReady,
                   rIsLinkable, rIsLinked>>

\* before `new CollaboratorMap(doc)': the document may hold no map, an empty
\* map, or a map with entries of earlier sessions
RosterInit ==
    /\ rootHasMap \in BOOLEAN
    /\ shared \in KeyedMaps
    /\ ~rootHasMap => shared = EmptyMap
    /\ live \in SUBSET Sessions
    /\ mapBound = FALSE
    /\ localCollaborator = Null
    /\ docListening = FALSE
    /\ mapListening = FALSE
    /\ rConnected = FALSE
    /\ rDisposed = FALSE
    /\ rReady = FALSE
    /\ rIsLinkable = FALSE
    /\ rIsLinked = FALSE
    /\ rOp = ROpRec("none", "", Undefined, <<>>, FALSE)
    /\ rPre = shared
    /\ rEvents = <<>>
    /\ rEvtOut = <<>>
    /\ rOut = <<>>
    /\ rRet = Undefined
    /\ rErr = "none"

RosterNext ==
    \/ \E nm \in [Sessions -> Names] : Construct(nm) /\ UNCHANGED <<strVars, sessVars>>
    \/ \E s \in Sessions, n \in Names : CollaboratorJoined(s, n) /\ UNCHANGED <<strVars, sessVars>>
    \/ \E s \in Sessions : CollaboratorLeft(s) /\ UNCHANGED <<strVars, sessVars>>
    \/ \E s \in Sessions : BackendJoined(s) /\ UNCHANGED <<strVars, sessVars>>
    \/ \E s \in Sessions : BackendLeft(s) /\ UNCHANGED <<strVars, sessVars>>
    \/ \E k \in Sessions : RemoteEmptyValueChanged(k) /\ UNCHANGED <<strVars, sessVars>>
    \/ \E k \in Sessions : rGet(k) /\ UNCHANGED <<strVars, sessVars>>
    \/ \E k \in Sessions : rHas(k) /\ UNCHANGED <<strVars, sessVars>>
    \/ rKeys /\ UNCHANGED <<strVars, sessVars>>
    \/ rValues /\ UNCHANGED <<strVars, sessVars>>
    \/ rSize /\ UNCHANGED <<strVars, sessVars>>
    \/ \E k \in Sessions : \E v \in RecordsOf(k) \cup {Undefined} :
            RemoteValueChanged(k, v) /\ UNCHANGED <<strVars, sessVars>>
    \/ \E k \in Sessions : \E v \in RecordsOf(k) : rSet(k, v) /\ UNCHANGED <<strVars, sessVars>>
    \/ \E k \in Sessions : rDelete(k) /\ UNCHANGED <<strVars, sessVars>>
    \/ rClear /\ UNCHANGED <<strVars, sessVars>>
    \/ rLink /\ UNCHANGED <<strVars, sessVars>>
    \/ rUnlink /\ UNCHANGED <<strVars, sessVars>>
    \/ rDispose /\ UNCHANGED <<strVars, sessVars>>

\* ------------------------------------------------------------------------
\* Several sessions: one roster per session, the same shared map
\* ------------------------------------------------------------------------

\* the sessions that hold a roster; the third session joins and leaves
Holders == {"s1", "s2"}

Joiners == Sessions \ Holders

DocEvent(kind, collaborator, evt) ==
    [kind |-> kind, collaborator |-> collaborator, evt |-> evt]

NoSessOp == [kind |-> "none", sessionId |-> ""]

\* what the listener a roster registered for the event does on map m
HandleEvent(m, e) ==
    IF e.kind = "COLLABORATOR_JOINED"
    THEN setCall(m, toCollaborator(e.collaborator).sessionId,
                 toCollaborator(e.collaborator))
    ELSE IF e.kind = "COLLABORATOR_LEFT"
    THEN deleteCall(m, e.collaborator.sessionId)
    ELSE [map |-> m, events |-> <<>>, notes |-> OnValueChanged(e.evt),
          ret |-> Undefined]

\* the writes of one session reach the other sessions as VALUE_CHANGED
\* events with isLocal = false
Propagated(evts) ==
    [i \in 1..Len(evts) |->
        DocEvent("VALUE_CHANGED", Undefined, [evts[i] EXCEPT !.isLocal = FALSE])]

\* the backend announces the join of session s to every roster
BackendJoinAll(s, n) ==
    /\ s \notin live
    /\ \A h \in Holders : inbox[h] = <<>>
    /\ live' = live \cup {s}
    /\ inbox' = [h \in Holders |->
                    <<DocEvent("COLLABORATOR_JOINED", Collab(s, n), Undefined)>>]
    /\ heard' = [h \in Holders |-> <<>>]
    /\ sessOp' = [kind |-> "join", sessionId |-> s]
    /\ UNCHANGED shared

\* the backend announces that session s left to every roster
BackendLeaveAll(s) ==
    /\ s \in live
    /\ \A h \in Holders : inbox[h] = <<>>
    /\ live' = live \ {s}
    /\ inbox' = [h \in Holders |->
                    <<DocEvent("COLLABORATOR_LEFT", [sessionId |-> s], Undefined)>>]
    /\ heard' = [h \in Holders |-> <<>>]
    /\ sessOp' = [kind |-> "left", sessionId |-> s]
    /\ UNCHANGED shared

\* the event loop of session h takes its next event and runs the listener
Deliver(h) ==
    /\ inbox[h] # <<>>
    /\ LET r == HandleEvent(shared, Head(inbox[h]))
       IN /\ shared' = r.map
          /\ heard' = [heard EXCEPT ![h] = @ \o r.notes \o rDispatchAll(r.events)]
          /\ inbox' = [o \in Holders |->
                          IF o = h THEN Tail(inbox[h])
                          ELSE inbox[o] \o Propagated(r.events)]
    /\ UNCHANGED <<live, sessOp>>

\* the single-roster bookkeeping, not used while several sessions run
OneRosterRest ==
    <<rootHasMap, mapBound, localCollaborator, docListening, mapListening,
      rConnected, rDisposed, rReady, rIsLinkable, rIsLinked, rOp, rPre, rEvents,
      rEvtOut, rOut, rRet, rErr>>

\* no second session is modelled
SessionsIdle ==
    /\ inbox = [h \in Holders |-> <<>>]
    /\ heard = [h \in Holders |-> <<>>]
    /\ sessOp = NoSessOp

\* every holder has constructed its roster: the map holds the holders
SessionsInit ==
    /\ SessionsIdle
    /\ live = Holders
    /\ \E nm \in [Holders -> Names] :
          shared = [k \in Sessions |-> IF k \in Holders THEN Rec(k, nm[k])
                                       ELSE Undefined]
    /\ rootHasMap = TRUE
    /\ mapBound = TRUE
    /\ localCollaborator = shared[Me]
    /\ docListening = TRUE
    /\ mapListening = TRUE
    /\ rConnected = TRUE
    /\ rDisposed = FALSE
    /\ rReady = TRUE
    /\ rIsLinkable = FALSE
    /\ rIsLinked = FALSE
    /\ rOp = ROpRec("none", "", Undefined, <<>>, FALSE)
    /\ rPre = shared
    /\ rEvents = <<>>
    /\ rEvtOut = <<>>
    /\ rOut = <<>>
    /\ rRet = Undefined
    /\ rErr = "none"

SessionsNext ==
    \/ \E s \in Joiners, n \in Names :
            BackendJoinAll(s, n) /\ UNCHANGED <<strVars, OneRosterRest>>
    \/ \E s \in Joiners : BackendLeaveAll(s) /\ UNCHANGED <<strVars, OneRosterRest>>
    \/ \E h \in Holders : Deliver(h) /\ UNCHANGED <<strVars, OneRosterRest>>

\* state after `new GoogleRealtimeString(str)' over a handle holding text
\* t0, with a subscriber connected to `changed'
StrConstructedOn(t0) ==
    /\ hText = t0
    /\ refText = hText
    /\ strListening = TRUE
    /\ strConnected = TRUE
    /\ strDisposed = FALSE
    /\ strIsLinkable = FALSE
    /\ strIsLinked = FALSE
    /\ strErr = "none"
    /\ strOp = StrOpRec("new", 0, 0, <<>>)
    /\ strPre = hText
    /\ strEvents = <<>>
    /\ strEvtOut = <<>>
    /\ strOut = <<>>
    /\ strSeen = <<>>

\* the roster, left alone while the string adapter is exercised
RosterIdle ==
    /\ rootHasMap = FALSE
    /\ shared = EmptyMap
    /\ live = {}
    /\ mapBound = FALSE
    /\ localCollaborator = Null
    /\ docListening = FALSE
    /\ mapListening = FALSE
    /\ rConnected = FALSE
    /\ rDisposed = FALSE
    /\ rReady = FALSE
    /\ rIsLinkable = FALSE
    /\ rIsLinked = FALSE
    /\ rOp = ROpRec("none", "", Undefined, <<>>, FALSE)
    /\ rPre = shared
    /\ rEvents = <<>>
    /\ rEvtOut = <<>>
    /\ rOut = <<>>
    /\ rRet = Undefined
    /\ rErr = "none"

StrNext ==
    \/ \E i \in 0..MaxLen, t \in Texts : insert(i, t) /\ UNCHANGED <<rVars, sessVars>>
    \/ \E s \in 0..Len(hText), e \in 0..Len(hText) : remove(s, e) /\ UNCHANGED <<rVars, sessVars>>
    \/ \E v \in Texts : textSet(v) /\ UNCHANGED <<rVars, sessVars>>
    \/ clear /\ UNCHANGED <<rVars, sessVars>>
    \/ \E i \in 0..MaxLen, t \in Texts : RemoteTextInserted(i, t) /\ UNCHANGED <<rVars, sessVars>>
    \/ \E s \in 0..Len(hText), e \in 0..Len(hText) : RemoteTextDeleted(s, e) /\ UNCHANGED <<rVars, sessVars>>
    \/ strLink /\ UNCHANGED <<rVars, sessVars>>
    \/ strUnlink /\ UNCHANGED <<rVars, sessVars>>
    \/ strDispose /\ UNCHANGED <<rVars, sessVars>>

StrInit == (\E t0 \in InitTexts : StrConstructedOn(t0)) /\ RosterIdle /\ SessionsIdle

SpecString == StrInit /\ [][StrNext]_vars

\* removals only, on a handle that holds a long text
RemoveInit == StrConstructedOn(HelloWorld) /\ RosterIdle /\ SessionsIdle

RemoveNext ==
    \E s \in 0..Len(hText), e \in 0..Len(hText) : remove(s, e) /\ UNCHANGED <<rVars, sessVars>>

SpecRemove == RemoveInit /\ [][RemoveNext]_vars

\* the roster alone, over a string adapter that is not touched
RosterSpecInit == RosterInit /\ StrConstructedOn(<<>>) /\ SessionsIdle

SpecRoster == RosterSpecInit /\ [][RosterNext]_vars

\* the roster driven by the backend's join and leave events only
JoinLeaveNext ==
    \/ \E nm \in [Sessions -> Names] : Construct(nm) /\ UNCHANGED <<strVars, sessVars>>
    \/ \E s \in Sessions, n \in Names : CollaboratorJoined(s, n) /\ UNCHANGED <<strVars, sessVars>>
    \/ \E s \in Sessions : CollaboratorLeft(s) /\ UNCHANGED <<strVars, sessVars>>
    \/ \E s \in Sessions : BackendJoined(s) /\ UNCHANGED <<strVars, sessVars>>
    \/ \E s \in Sessions : BackendLeft(s) /\ UNCHANGED <<strVars, sessVars>>

SpecJoinLeave == RosterSpecInit /\ [][JoinLeaveNext]_vars

\* no GoogleRealtimeString has been constructed
StrAbsent ==
    /\ hText = <<>>
    /\ refText = hText
    /\ strListening = FALSE
    /\ strConnected = FALSE
    /\ strDisposed = FALSE
    /\ strIsLinkable = FALSE
    /\ strIsLinked = FALSE
    /\ strErr = "none"
    /\ strOp = StrOpRec("none", 0, 0, <<>>)
    /\ strPre = hText
    /\ strEvents = <<>>
    /\ strEvtOut = <<>>
    /\ strOut = <<>>
    /\ strSeen = <<>>

\* the program holds a string adapter
StrUp == strOp.op # "none"

\* both adapters: a behaviour exercises the one the program constructed
\* (the two classes share no state)
AdaptersInit == StrInit \/ (RosterInit /\ StrAbsent /\ SessionsIdle)

AdaptersNext ==
    \/ StrUp /\ \E i \in 0..MaxLen, t \in Texts : insert(i, t) /\ UNCHANGED <<rVars, sessVars>>
    \/ StrUp /\ \E s \in 0..Len(hText), e \in 0..Len(hText) :
                    remove(s, e) /\ UNCHANGED <<rVars, sessVars>>
    \/ StrUp /\ \E v \in Texts : textSet(v) /\ UNCHANGED <<rVars, sessVars>>
    \/ StrUp /\ clear /\ UNCHANGED <<rVars, sessVars>>
    \/ StrUp /\ \E i \in 0..MaxLen, t \in Texts :
                    RemoteTextInserted(i, t) /\ UNCHANGED <<rVars, sessVars>>
    \/ StrUp /\ \E s \in 0..Len(hText), e \in 0..Len(hText) :
                    RemoteTextDeleted(s, e) /\ UNCHANGED <<rVars, sessVars>>
    \/ StrUp /\ strLink /\ UNCHANGED <<rVars, sessVars>>
    \/ StrUp /\ strUnlink /\ UNCHANGED <<rVars, sessVars>>
    \/ StrUp /\ strDispose /\ UNCHANGED <<rVars, sessVars>>
    \/ ~StrUp /\ \E nm \in [Sessions -> Names] : Construct(nm) /\ UNCHANGED <<strVars, sessVars>>
    \/ ~StrUp /\ \E s \in Sessions, n \in Names :
                    CollaboratorJoined(s, n) /\ UNCHANGED <<strVars, sessVars>>
    \/ ~StrUp /\ \E s \in Sessions : CollaboratorLeft(s) /\ UNCHANGED <<strVars, sessVars>>
    \/ ~StrUp /\ \E s \in Sessions : BackendJoined(s) /\ UNCHANGED <<strVars, sessVars>>
    \/ ~StrUp /\ \E s \in Sessions : BackendLeft(s) /\ UNCHANGED <<strVars, sessVars>>
    \/ ~StrUp /\ \E k \in Sessions : RemoteEmptyValueChanged(k) /\ UNCHANGED <<strVars, sessVars>>
    \/ ~StrUp /\ \E k \in Sessions : rGet(k) /\ UNCHANGED <<strVars, sessVars>>
    \/ ~StrUp /\ \E k \in Sessions : rHas(k) /\ UNCHANGED <<strVars, sessVars>>
    \/ ~StrUp /\ rKeys /\ UNCHANGED <<strVars, sessVars>>
    \/ ~StrUp /\ rValues /\ UNCHANGED <<strVars, sessVars>>
    \/ ~StrUp /\ rSize /\ UNCHANGED <<strVars, sessVars>>
    \/ ~StrUp /\ \E k \in Sessions : \E v \in RecordsOf(k) \cup {Undefined} :
                    RemoteValueChanged(k, v) /\ UNCHANGED <<strVars, sessVars>>
    \/ ~StrUp /\ \E k \in Sessions : \E v \in RecordsOf(k) :
                    rSet(k, v) /\ UNCHANGED <<strVars, sessVars>>
    \/ ~StrUp /\ \E k \in Sessions : rDelete(k) /\ UNCHANGED <<strVars, sessVars>>
    \/ ~StrUp /\ rClear /\ UNCHANGED <<strVars, sessVars>>
    \/ ~StrUp /\ rLink /\ UNCHANGED <<strVars, sessVars>>
    \/ ~StrUp /\ rUnlink /\ UNCHANGED <<strVars, sessVars>>
    \/ ~StrUp /\ rDispose /\ UNCHANGED <<strVars, sessVars>>

SpecAdapters == AdaptersInit /\ [][AdaptersNext]_vars

\* two sessions with ready rosters; a third session joins and leaves
SessionsSpecInit == SessionsInit /\ StrAbsent

SpecSessions == SessionsSpecInit /\ [][SessionsNext]_vars

\* ------------------------------------------------------------------------
\* Properties of GoogleRealtimeString
\* ------------------------------------------------------------------------

StrMutationOps == {"insert", "remove", "set", "clear", "remoteInsert", "remoteDelete"}

ExpectedOfEvent(e) ==
    [type  |-> IF e.type = "TEXT_INSERTED" THEN "insert" ELSE "remove",
     start |-> e.index,
     end   |-> e.index + Len(e.text),
     value |-> e.text]

\* C2: on a live adapter a TEXT_INSERTED / TEXT_DELETED event with
\* isLocal=false is turned into exactly one insert / remove notification
\* with start=index, end=index+len(text), value=text, and events with
\* isLocal=true produce no notification on the event path.
C2_RemoteTranslation ==
    ~strDisposed =>
        /\ (\A i \in 1..Len(strEvents) : strEvents[i].isLocal) => strEvtOut = <<>>
        /\ (Len(strEvents) = 1 /\ ~strEvents[1].isLocal) =>
                /\ strEvtOut = <<ExpectedOfEvent(strEvents[1])>>
                /\ strOut = strEvtOut

\* a remote deletion of two characters was translated
C2_Witness ==
    /\ ~strDisposed
    /\ strOp.op = "remoteDelete"
    /\ strEvents = <<TextEvent("TEXT_DELETED", 1, <<"b", "a">>, FALSE)>>
    /\ strOut = <<StrNote("remove", 1, 3, <<"b", "a">>)>>

\* C3: the text getter always equals the reference string that received the
\* same edits, which is the handle's current text.
C3_RoundTrip == getText = refText

\* a local removal in the middle of a text that a remote insert produced
C3_Witness ==
    /\ strOp.op = "remove"
    /\ strOp.a = 1
    /\ strOp.b = 2
    /\ strPre = <<"a", "b", "b">>
    /\ getText = <<"a", "b">>
    /\ refText = <<"a", "b">>

\* C4: remove(start,end) leaves the text without [start,end) and delivers
\* one remove notification {start, end, value}, emitted after the removal,
\* whose value is the text that was at [start,end) before the removal.
C4_RemoveCapturesBefore ==
    (strOp.op = "remove" /\ ~strDisposed) =>
        /\ hText = SubSeq(strPre, 1, strOp.a) \o SubSeq(strPre, strOp.b + 1, Len(strPre))
        /\ strOut = <<StrNote("remove", strOp.a, strOp.b,
                              SubSeq(strPre, strOp.a + 1, strOp.b))>>
        /\ strSeen = <<hText>>

\* remove(2,5) on "hello world"
C4_Witness ==
    /\ strOp.op = "remove"
    /\ strOp.a = 2
    /\ strOp.b = 5
    /\ strPre = HelloWorld
    /\ hText = <<"h", "e", " ", "w", "o", "r", "l", "d">>
    /\ strOut = <<StrNote("remove", 2, 5, <<"l", "l", "o">>)>>

\* C5: insert mutates the handle and then delivers one insert notification
\* for [index, index+len(str)); the text setter sets the text and then
\* delivers one set notification {0, len(v), v} whether or not the handle
\* fired an echo; clear() does what `text = ""' does; every insert and set
\* notification has end - start = length(value).
C5_InsertSetClear ==
    ~strDisposed =>
        /\ strOp.op = "insert" =>
              /\ hText = SubSeq(strPre, 1, strOp.a) \o strOp.v
                           \o SubSeq(strPre, strOp.a + 1, Len(strPre))
              /\ strOut = <<StrNote("insert", strOp.a, strOp.a + Len(strOp.v), strOp.v)>>
              /\ strSeen = <<hText>>
        /\ strOp.op = "set" =>
              /\ hText = strOp.v
              /\ strOut = <<StrNote("set", 0, Len(strOp.v), strOp.v)>>
              /\ strSeen = <<hText>>
        /\ strOp.op = "clear" =>
              /\ hText = <<>>
              /\ strOut = <<StrNote("set", 0, 0, <<>>)>>
              /\ strSeen = <<hText>>
        /\ \A i \in 1..Len(strOut) :
              strOut[i].type \in {"insert", "set"} =>
                  strOut[i].end - strOut[i].start = Len(strOut[i].value)

\* clear() on a non-empty text
C5_Witness ==
    /\ ~strDisposed
    /\ strOp.op = "clear"
    /\ strPre = <<"a", "b", "a">>
    /\ hText = <<>>
    /\ strOut = <<StrNote("set", 0, 0, <<>>)>>

\* ------------------------------------------------------------------------
\* Properties of CollaboratorMap
\* ------------------------------------------------------------------------

has(key) == mapHas(shared, key)

get(key) == mapGet(shared, key)

keys == mapKeys(shared)

IdentityOf(c) ==
    [userId |-> c.userId, sessionId |-> c.sessionId,
     displayName |-> c.displayName, color |-> c.color]

\* C6: once the constructor has run, for every initial content of the shared
\* map (absent, empty, stale and/or live entries) and every live list, the
\* key set of the roster is exactly the set of live session ids, an entry
\* that existed for a live session is the record it was, and an entry that
\* was missing holds the identity record of the live collaborator.
C6_Reconciliation ==
    rOp.op = "construct" =>
        /\ rReady
        /\ sessionIds(rOp.list) = live
        /\ keys = live
        /\ \A s \in live : mapHas(rPre, s) => get(s) = rPre[s]
        /\ \A i \in 1..Len(rOp.list) :
              ~mapHas(rPre, rOp.list[i].sessionId) =>
                  get(rOp.list[i].sessionId) = IdentityOf(rOp.list[i])

\* live [s1 (isMe), s2]; the map held a stale s0 and an s2 named differently
C6_Witness ==
    /\ rOp.op = "construct"
    /\ live = {"s1", "s2"}
    /\ rPre = [s \in Sessions |->
                  IF s = "s0" THEN Rec("s0", "n1")
                  ELSE IF s = "s2" THEN Rec("s2", "n1") ELSE Undefined]
    /\ rOp.list = <<Collab("s1", "n2"), Collab("s2", "n2")>>
    /\ keys = {"s1", "s2"}
    /\ get("s2") = Rec("s2", "n1")
    /\ get("s1") = Rec("s1", "n2")
    /\ localCollaborator = Rec("s1", "n2")

\* C7: after construction, whenever the live list holds a collaborator
\* flagged isMe, localCollaborator is the identity record of that session,
\* also when the shared map already held an entry for that session id.
C7_LocalCollaboratorAfterConstruct ==
    rOp.op = "construct" =>
        \A i \in 1..Len(rOp.list) :
            rOp.list[i].isMe =>
                /\ localCollaborator # Null
                /\ localCollaborator.sessionId = rOp.list[i].sessionId

EntryWriters == {"join", "set", "valueChanged"}

\* C8: a COLLABORATOR_LEFT event for session s on a ready roster that is not
\* disposed deletes the entry of s and delivers one remove notification with
\* key s, so that has(s) is false; has(s) turns true again only by a join or
\* a set of s (by this session or, through the shared map, by another one).
C8_Leave ==
    [][ /\ (rOp'.op = "left" /\ rReady /\ ~rDisposed) =>
              /\ ~mapHas(shared', rOp'.key)
              /\ rOut' = <<MapNote("remove", rOp'.key, shared[rOp'.key], Undefined)>>
        /\ \A s \in Sessions :
              (rReady /\ ~mapHas(shared, s) /\ mapHas(shared', s)) =>
                  (rOp'.op \in EntryWriters /\ rOp'.key = s)
      ]_vars

\* s2 had an entry, left, and is gone
C8_Witness ==
    /\ rOp.op = "left"
    /\ rOp.key = "s2"
    /\ ~rDisposed
    /\ mapHas(rPre, "s2")
    /\ ~has("s2")
    /\ rOut = <<MapNote("remove", "s2", rPre["s2"], Undefined)>>

\* C9: a COLLABORATOR_JOINED event on a roster that is not disposed stores
\* the record (userId, sessionId, displayName, color) built from the payload
\* under its session id, sets localCollaborator to it when the payload is
\* flagged isMe and leaves it unchanged otherwise, and delivers one
\* notification: add when the key was absent, change when it was present,
\* with oldValue the prior record and newValue the new one.
C9_Join ==
    [][ (rOp'.op = "join" /\ ~rDisposed) =>
            LET c == rOp'.list[1]
                k == c.sessionId
            IN /\ rOp'.key = k
               /\ shared' = [shared EXCEPT ![k] = IdentityOf(c)]
               /\ localCollaborator' =
                     IF c.isMe THEN IdentityOf(c) ELSE localCollaborator
               /\ rOut' = <<MapNote(IF mapHas(shared, k) THEN "change" ELSE "add",
                                    k, shared[k], IdentityOf(c))>>
      ]_vars

\* the local session joins while the map holds an older entry of it
C9_Witness ==
    /\ rOp.op = "join"
    /\ ~rDisposed
    /\ rOp.list = <<Collab("s1", "n2")>>
    /\ rPre["s1"] = Rec("s1", "n1")
    /\ rOut = <<MapNote("change", "s1", Rec("s1", "n1"), Rec("s1", "n2"))>>
    /\ get("s1") = Rec("s1", "n2")
    /\ localCollaborator = Rec("s1", "n2")

\* C10: on a roster that is not disposed set, delete and clear change the
\* shared map and deliver their notification before they return: set an add
\* or a change, delete a remove, clear() of a non-empty roster a notification
\* for the removed entries; set and delete return the prior value of the key.
C10_MutatorsNotify ==
    ~rDisposed =>
        /\ rOp.op = "set" =>
              /\ get(rOp.key) = rOp.value
              /\ rOut = <<MapNote(IF mapHas(rPre, rOp.key) THEN "change" ELSE "add",
                                  rOp.key, rPre[rOp.key], rOp.value)>>
              /\ rRet = rPre[rOp.key]
        /\ rOp.op = "delete" =>
              /\ ~has(rOp.key)
              /\ rOut = <<MapNote("remove", rOp.key, rPre[rOp.key], Undefined)>>
              /\ rRet = rPre[rOp.key]
        /\ rOp.op = "clear" =>
              /\ keys = {}
              /\ (mapKeys(rPre) # {} => rOut # <<>>)

\* ------------------------------------------------------------------------
\* Properties of disposal, linking and use after disposal on both adapters
\* ------------------------------------------------------------------------

\* C11: disposal is idempotent on both adapters.  A dispose() call leaves
\* isDisposed true and raises nothing; a dispose() call on an adapter that
\* is already disposed changes no state of the adapter, of the remote handle
\* or of the shared map; isDisposed never goes back to false.
C11_DisposeIdempotent ==
    [][/\ strDisposed => strDisposed'
       /\ rDisposed => rDisposed'
       /\ strOp'.op = "dispose" => strDisposed' /\ strErr' = "none"
       /\ rOp'.op = "dispose" => rDisposed' /\ rErr' = "none"
       /\ (strOp'.op = "dispose" /\ strDisposed) =>
              /\ UNCHANGED <<hText, strListening, strConnected, strIsLinkable,
                             strIsLinked>>
              /\ strOut' = <<>>
       /\ (rOp'.op = "dispose" /\ rDisposed) =>
              /\ UNCHANGED <<rootHasMap, shared, mapBound, live, localCollaborator,
                             docListening, mapListening, rConnected, rReady,
                             rIsLinkable, rIsLinked>>
              /\ rOut' = <<>>]_vars

\* a second dispose() of the roster, after another session refilled the
\* shared map: the map is not cleared again
C11_Witness ==
    /\ rOp.op = "dispose"
    /\ rDisposed
    /\ shared # EmptyMap
    /\ rErr = "none"

RemoteStrOps == {"remoteInsert", "remoteDelete"}

BackendEventOps == {"join", "left", "valueChanged"}

\* C12: after disposal no listener of the adapter remains active.  An event
\* the backend fires after dispose() (TEXT_INSERTED / TEXT_DELETED on the
\* string; COLLABORATOR_JOINED, COLLABORATOR_LEFT or VALUE_CHANGED on the
\* roster) runs no handler of the disposed adapter: no notification is
\* emitted and no error is raised by it.
C12_NoListenerAfterDispose ==
    /\ (strDisposed /\ strOp.op \in RemoteStrOps) =>
           strEvtOut = <<>> /\ strOut = <<>> /\ strErr = "none"
    /\ (rDisposed /\ rOp.op \in BackendEventOps) =>
           rEvtOut = <<>> /\ rOut = <<>> /\ rErr = "none"

LinkOps == {"link", "unlink"}

\* C13: link / unlink are inert on both adapters.  isLinkable and isLinked
\* are false in every state, and a link(x) or unlink() call, wherever it
\* falls among the other operations, changes neither the text, the roster
\* contents, the listeners nor the disposal state, emits no notification
\* and raises nothing.
C13_LinkInert ==
    /\ [](~strIsLinkable /\ ~strIsLinked /\ ~rIsLinkable /\ ~rIsLinked)
    /\ [][/\ strOp'.op \in LinkOps =>
              /\ UNCHANGED <<hText, strListening, strConnected, strDisposed>>
              /\ strOut' = <<>>
              /\ strErr' = "none"
          /\ rOp'.op \in LinkOps =>
              /\ UNCHANGED <<rootHasMap, shared, mapBound, live, localCollaborator,
                             docListening, mapListening, rConnected, rDisposed,
                             rReady>>
              /\ rOut' = <<>>
              /\ rErr' = "none"]_vars

\* link() called on a roster that holds entries
C13_Witness ==
    /\ rOp.op = "link"
    /\ mapBound
    /\ mapKeys(shared) # {}
    /\ ~rIsLinkable
    /\ ~rIsLinked

RosterCalls == {"set", "get", "has", "keys", "values", "delete", "clear", "size"}

StrCalls == {"insert", "remove", "set", "clear"}

\* C14: use after dispose fails fast.  Any operation invoked on a disposed
\* adapter (set, get, has, keys, values, delete, clear, size on the roster;
\* insert, remove, text set, clear on the string) ends in the dedicated
\* use-after-dispose error, never in an uncontrolled fault and never in a
\* silent success.
C14_UseAfterDisposeFailsFast ==
    /\ (rDisposed /\ rOp.op \in RosterCalls) => rErr = "UseAfterDispose"
    /\ (strDisposed /\ strOp.op \in StrCalls) => strErr = "UseAfterDispose"

\* ------------------------------------------------------------------------
\* Properties of the roster's notifications and listeners
\* ------------------------------------------------------------------------

NoteKinds == {"add", "remove", "change"}

NoteWellFormed(n) ==
    /\ n.type \in NoteKinds
    /\ n.type = "add" => n.oldValue = Undefined
    /\ n.type = "remove" => n.newValue = Undefined
    /\ n.type = "change" => n.oldValue # Undefined /\ n.newValue # Undefined

\* C15: every notification the roster emits on `changed', from a public
\* set or delete, from the join or leave listener or from the VALUE_CHANGED
\* listener, in any reachable state (a delete or leave of an absent key and
\* a VALUE_CHANGED event with neither value included), is well formed: `add'
\* has no oldValue, `remove' has no newValue, `change' has both.
C15_NoteInvariant ==
    \A i \in 1..Len(rOut) : NoteWellFormed(rOut[i])

\* the leave listener deletes a key that is not in the map and emits
\* `remove' with neither value
C15_Witness ==
    /\ rOp.op = "left"
    /\ ~mapHas(rPre, rOp.key)
    /\ Len(rOut) = 1
    /\ rOut[1].type = "remove"
    /\ rOut[1].oldValue = Undefined

ExpectedOfValueEvent(e) ==
    [type     |-> IF e.oldValue = Undefined THEN "add"
                  ELSE IF e.newValue = Undefined THEN "remove"
                  ELSE "change",
     key      |-> e.property,
     oldValue |-> e.oldValue,
     newValue |-> e.newValue]

\* C16: on a ready roster that is not disposed, a VALUE_CHANGED event with
\* isLocal=false emits exactly one notification with key=property and the
\* event's oldValue / newValue, of kind `add' when there is no prior value,
\* `remove' when there is a prior value and no new one, `change' when both
\* are there; VALUE_CHANGED events with isLocal=true emit nothing on the
\* event path.
C16_ValueChangedHandling ==
    (rReady /\ ~rDisposed) =>
        /\ (\A i \in 1..Len(rEvents) : rEvents[i].isLocal) => rEvtOut = <<>>
        /\ (Len(rEvents) = 1 /\ ~rEvents[1].isLocal) =>
                /\ rEvtOut = <<ExpectedOfValueEvent(rEvents[1])>>
                /\ rOut = rEvtOut

\* another session replaced the record of a key: one `change' notification
C16_Witness ==
    /\ rReady
    /\ ~rDisposed
    /\ rOp.op = "valueChanged"
    /\ Len(rEvents) = 1
    /\ ~rEvents[1].isLocal
    /\ rEvents[1].oldValue # Undefined
    /\ rEvents[1].newValue # Undefined
    /\ rOut = <<MapNote("change", rOp.key, rEvents[1].oldValue, rEvents[1].newValue)>>

\* C17: after readiness, under any sequence of COLLABORATOR_JOINED and
\* COLLABORATOR_LEFT events (no public set calls), the roster's key set is a
\* subset of the sessions the backend currently reports live.
C17_KeysSubsetOfLive ==
    rReady => keys \subseteq live

\* a session that was in the roster left after construction; the entries
\* that remain are live sessions
C17_Witness ==
    /\ rReady
    /\ rOp.op = "left"
    /\ mapHas(rPre, rOp.key)
    /\ ~has(rOp.key)
    /\ keys # {}
    /\ keys \subseteq live

JoinLeaveOps == {"join", "left"}

\* C18: reconciliation and join / leave events are ordered.  No join or
\* leave handler runs before construction has read the live list, pruned,
\* populated and registered its listeners (until then none is registered);
\* readiness implies all three registrations and a roster equal to the live
\* list; every join or leave delivered afterwards is applied exactly once
\* (one notification for its key), so the roster keeps tracking the live
\* list: none is lost or applied twice.
C18_ReconciliationOrdering ==
    /\ ~rReady => (~docListening /\ ~mapListening /\ rOp.op \notin JoinLeaveOps)
    /\ rReady => (docListening /\ mapListening /\ keys = live)
    /\ (rReady /\ rOp.op \in JoinLeaveOps) =>
           /\ Len(rOut) = 1
           /\ rOut[1].key = rOp.key
           /\ rOut[1].type = (IF rOp.op = "join" THEN "add" ELSE "remove")
           /\ has(rOp.key) <=> (rOp.op = "join")

\* sessions joined and left while nothing was listening, construction
\* reconciled, and a later join was applied once
C18_Witness ==
    /\ rReady
    /\ rOp.op = "join"
    /\ rOut = <<MapNote("add", rOp.key, Undefined, get(rOp.key))>>
    /\ Cardinality(keys) >= 2
    /\ keys = live

\* ------------------------------------------------------------------------
\* Properties across sessions and of the local collaborator
\* ------------------------------------------------------------------------

Quiescent == \A h \in Holders : inbox[h] = <<>>

\* C19: with two sessions holding a ready roster over the same shared map,
\* once every event that a single join (or leave) of a session caused has
\* been delivered, in whatever order, the subscriber of each roster has
\* received exactly one notification for it.
C19_ExactlyOnceAcrossSessions ==
    (sessOp.kind # "none" /\ Quiescent) =>
        \A h \in Holders : Len(heard[h]) = 1

\* C20: on a ready roster that is not disposed, whatever joins, leaves,
\* remote VALUE_CHANGED events and public set / delete / clear calls
\* happened, a non-null localCollaborator designates an entry of the
\* roster: has(localCollaborator.sessionId) holds and
\* get(localCollaborator.sessionId) is that record.
C20_LocalCollaboratorIsEntry ==
    (rReady /\ ~rDisposed /\ localCollaborator # Null) =>
        /\ has(localCollaborator.sessionId)
        /\ get(localCollaborator.sessionId) = localCollaborator

====
